---- MODULE Spec2Model ----
(***************************************************************************)
(* Model of app.py of README.AI: the two project-structure analyzers       *)
(* (fetch_github_repo_structure, analyze_local_directory) stepped through  *)
(* their loops, and the Streamlit session handlers that store their        *)
(* results.  Python strings are sequences of one-character strings so that *)
(* lower(), replace(), strip(), split(), Path.suffix and the substring     *)
(* tests are computed, not assumed.                                        *)
(***************************************************************************)
EXTENDS Naturals, Integers, Sequences, FiniteSets, TLC

(***************************************************************************)
(* Bounds of the model and constants of the program.                       *)
(***************************************************************************)
\* the 'files' sample cap, len(analysis['files']) < 100
MaxFiles == 100
\* the 'directories' sample cap, len(analysis['directories']) < 50
MaxDirs == 50
\* filler entries are generated up to this many past a cap
Slack == 1
\* longest list of hand-picked entries in a listing without filler entries
MaxTail == 3

(***************************************************************************)
(* Python str operations on sequences of characters.                       *)
(***************************************************************************)
UpperChars == <<"A", "B", "C", "D", "E", "F", "G", "H", "I", "J", "K", "L", "M", "N", "O", "P", "Q", "R", "S", "T", "U", "V", "W", "X", "Y", "Z">>
LowerChars == <<"a", "b", "c", "d", "e", "f", "g", "h", "i", "j", "k", "l", "m", "n", "o", "p", "q", "r", "s", "t", "u", "v", "w", "x", "y", "z">>
DigitChars == <<"0", "1", "2", "3", "4", "5", "6", "7", "8", "9">>

\* str.lower() on one character
LowerChar(c) ==
    IF \E i \in 1..Len(UpperChars) : UpperChars[i] = c
    THEN LowerChars[CHOOSE i \in 1..Len(UpperChars) : UpperChars[i] = c]
    ELSE c

\* str.lower()
Lower(s) == [i \in 1..Len(s) |-> LowerChar(s[i])]

\* s[i:i+len(p)] == p
MatchAt(s, p, i) ==
    /\ i >= 1
    /\ i + Len(p) - 1 <= Len(s)
    /\ \A k \in 1..Len(p) : s[i + k - 1] = p[k]

\* p in s
Contains(s, p) == \E i \in 1..(Len(s) + 1) : MatchAt(s, p, i)

\* s.startswith(p)
StartsWith(s, p) == MatchAt(s, p, 1)

\* s.replace(old, new): leftmost non-overlapping occurrences
RECURSIVE Replace(_, _, _)
Replace(s, old, new) ==
    IF Len(s) = 0 THEN <<>>
    ELSE IF MatchAt(s, old, 1)
         THEN new \o Replace(SubSeq(s, Len(old) + 1, Len(s)), old, new)
         ELSE <<s[1]>> \o Replace(Tail(s), old, new)

\* s.lstrip(c) and s.rstrip(c), c one character
RECURSIVE LStrip(_, _)
LStrip(s, c) == IF Len(s) > 0 /\ s[1] = c THEN LStrip(Tail(s), c) ELSE s

RECURSIVE RStrip(_, _)
RStrip(s, c) ==
    IF Len(s) > 0 /\ s[Len(s)] = c THEN RStrip(SubSeq(s, 1, Len(s) - 1), c) ELSE s

\* s.strip(c)
Strip(s, c) == RStrip(LStrip(s, c), c)

\* s.find(c) and s.rfind(c) as 1-based positions, 0 when absent
Find(s, c) ==
    IF \E i \in 1..Len(s) : s[i] = c
    THEN CHOOSE i \in 1..Len(s) : s[i] = c /\ \A j \in 1..(i - 1) : s[j] # c
    ELSE 0

RFind(s, c) ==
    IF \E i \in 1..Len(s) : s[i] = c
    THEN CHOOSE i \in 1..Len(s) : s[i] = c /\ \A j \in (i + 1)..Len(s) : s[j] # c
    ELSE 0

\* s.split(c): the list of pieces between occurrences of c
RECURSIVE Split(_, _)
Split(s, c) ==
    IF Find(s, c) = 0 THEN <<s>>
    ELSE <<SubSeq(s, 1, Find(s, c) - 1)>> \o Split(SubSeq(s, Find(s, c) + 1, Len(s)), c)

\* decimal rendering of a natural number
RECURSIVE Decimal(_)
Decimal(n) ==
    IF n < 10 THEN <<DigitChars[n + 1]>>
    ELSE Decimal(n \div 10) \o <<DigitChars[(n % 10) + 1]>>

\* os.path.basename(path): what follows the last '/'
Basename(path) == SubSeq(path, RFind(path, "/") + 1, Len(path))

\* Path(path).suffix: the last component from its last '.', unless that dot
\* is the first or the last character of the component
Suffix(path) ==
    LET name == Basename(path)
        i == RFind(name, ".")
    IN IF 1 < i /\ i < Len(name) THEN SubSeq(name, i, Len(name)) ELSE <<>>

\* os.path.join(a, b) for a relative b
PathJoin(a, b) ==
    IF Len(a) = 0 \/ a[Len(a)] = "/" THEN a \o b ELSE a \o <<"/">> \o b

(***************************************************************************)
(* Marker-file recognition lists of both analyzers.                        *)
(***************************************************************************)
\* RequirementsNames as it would be if requirements-test.txt were listed
RequirementsNamesWithTest ==
    { <<"r", "e", "q", "u", "i", "r", "e", "m", "e", "n", "t", "s", ".", "t", "x", "t">>, <<"r", "e", "q", "u", "i", "r", "e", "m", "e", "n", "t", "s", "-", "d", "e", "v", ".", "t", "x", "t">>, <<"r", "e", "q", "u", "i", "r", "e", "m", "e", "n", "t", "s", "-", "t", "e", "s", "t", ".", "t", "x", "t">>,
      <<"p", "y", "p", "r", "o", "j", "e", "c", "t", ".", "t", "o", "m", "l">>, <<"s", "e", "t", "u", "p", ".", "p", "y">> }

RequirementsNames ==
    { <<"r", "e", "q", "u", "i", "r", "e", "m", "e", "n", "t", "s", ".", "t", "x", "t">>, <<"r", "e", "q", "u", "i", "r", "e", "m", "e", "n", "t", "s", "-", "d", "e", "v", ".", "t", "x", "t">>,
      <<"p", "y", "p", "r", "o", "j", "e", "c", "t", ".", "t", "o", "m", "l">>, <<"s", "e", "t", "u", "p", ".", "p", "y">> }

PackageNames ==
    { <<"p", "a", "c", "k", "a", "g", "e", ".", "j", "s", "o", "n">>, <<"p", "a", "c", "k", "a", "g", "e", "-", "l", "o", "c", "k", ".", "j", "s", "o", "n">>, <<"y", "a", "r", "n", ".", "l", "o", "c", "k">> }

DockerNames ==
    { <<"d", "o", "c", "k", "e", "r", "f", "i", "l", "e">>, <<"d", "o", "c", "k", "e", "r", "-", "c", "o", "m", "p", "o", "s", "e", ".", "y", "m", "l">>, <<"d", "o", "c", "k", "e", "r", "-", "c", "o", "m", "p", "o", "s", "e", ".", "y", "a", "m", "l">> }

\* the directory names pruned by the local walk
DenyList ==
    { <<".", "g", "i", "t">>, <<"n", "o", "d", "e", "_", "m", "o", "d", "u", "l", "e", "s">>, <<"_", "_", "p", "y", "c", "a", "c", "h", "e", "_", "_">>, <<"v", "e", "n", "v">>, <<".", "v", "e", "n", "v">>,
      <<"d", "i", "s", "t">>, <<"b", "u", "i", "l", "d">>, <<".", "n", "e", "x", "t">>, <<".", "i", "d", "e", "a">> }

(***************************************************************************)
(* Values.  None is Python's None; an error message is a record of the     *)
(* parts its f-string is built from.                                       *)
(***************************************************************************)
None == [none |-> TRUE]

ErrorMsg(text, status, detail) == [text |-> text, status |-> status, detail |-> detail]

\* the (analysis, error) pair a fetch returns
Result(a, e) == [analysis |-> a, error |-> e]

(***************************************************************************)
(* The summary both analyzers build.                                       *)
(***************************************************************************)
\* analysis = {...} of fetch_github_repo_structure
NewGithubAnalysis(data, own, url) ==
    [ name |-> data.name,
      description |-> data.description,
      language |-> data.language,
      stars |-> data.stargazers_count,
      forks |-> data.forks_count,
      open_issues |-> data.open_issues_count,
      topics |-> data.topics,
      files |-> <<>>,
      directories |-> <<>>,
      languages |-> <<>>,
      file_count |-> 0,
      has_requirements |-> FALSE,
      has_package_json |-> FALSE,
      has_dockerfile |-> FALSE,
      has_tests |-> FALSE,
      config_files |-> <<>>,
      owner |-> own,
      repo_url |-> url ]

\* analysis = {...} of analyze_local_directory
NewLocalAnalysis ==
    [ files |-> <<>>,
      directories |-> <<>>,
      languages |-> <<>>,
      file_count |-> 0,
      has_requirements |-> FALSE,
      has_package_json |-> FALSE,
      has_dockerfile |-> FALSE,
      has_tests |-> FALSE,
      config_files |-> <<>>,
      is_local |-> TRUE ]

\* CountFile as it would be if only sampled files were counted
CountFileSampled(a) ==
    IF Len(a.files) < MaxFiles THEN [a EXCEPT !.file_count = @ + 1] ELSE a

\* analysis['file_count'] += 1
CountFile(a) == [a EXCEPT !.file_count = @ + 1]

\* if ext: analysis['languages'][ext] = analysis['languages'].get(ext, 0) + 1
CountExt(a, ext) ==
    IF ext # <<>>
    THEN [a EXCEPT !.languages =
            [e \in (DOMAIN a.languages) \cup {ext} |->
                IF e = ext
                THEN (IF ext \in DOMAIN a.languages THEN a.languages[ext] ELSE 0) + 1
                ELSE a.languages[e]]]
    ELSE a

\* MarkFile as it would be if the name were compared as found
MarkFileCaseSensitive(a, file) ==
    IF file \in RequirementsNames
    THEN [a EXCEPT !.has_requirements = TRUE, !.config_files = Append(@, file)]
    ELSE IF file \in PackageNames
    THEN [a EXCEPT !.has_package_json = TRUE, !.config_files = Append(@, file)]
    ELSE IF file \in DockerNames
    THEN [a EXCEPT !.has_dockerfile = TRUE, !.config_files = Append(@, file)]
    ELSE IF Contains(file, <<"t", "e", "s", "t">>) \/ StartsWith(file, <<"t", "e", "s", "t", "_">>)
    THEN [a EXCEPT !.has_tests = TRUE]
    ELSE a

\* the if/elif chain over the name of one file; 'file' is the name as
\* found, compared in lower case
MarkFile(a, file) ==
    LET filename == Lower(file) IN
    IF filename \in RequirementsNames
    THEN [a EXCEPT !.has_requirements = TRUE, !.config_files = Append(@, file)]
    ELSE IF filename \in PackageNames
    THEN [a EXCEPT !.has_package_json = TRUE, !.config_files = Append(@, file)]
    ELSE IF filename \in DockerNames
    THEN [a EXCEPT !.has_dockerfile = TRUE, !.config_files = Append(@, file)]
    ELSE IF Contains(filename, <<"t", "e", "s", "t">>) \/ StartsWith(file, <<"t", "e", "s", "t", "_">>)
    THEN [a EXCEPT !.has_tests = TRUE]
    ELSE a

\* if len(analysis['files']) < 100: analysis['files'].append(path)
SampleFile(a, path) ==
    IF Len(a.files) < MaxFiles THEN [a EXCEPT !.files = Append(@, path)] ELSE a

\* ScanTreeItem as it would be without .lower() on the suffix
ScanTreeItemRawExt(a, item) ==
    IF item.type = "blob"
    THEN SampleFile(
           MarkFile(CountExt(CountFile(a), Suffix(item.path)),
                    Basename(item.path)),
           item.path)
    ELSE IF item.type = "tree" /\ Len(a.directories) < MaxDirs
    THEN [a EXCEPT !.directories = Append(@, item.path)]
    ELSE a

\* body of the loop over tree_data['tree'] for an item that has a 'type'
ScanTreeItem(a, item) ==
    IF item.type = "blob"
    THEN SampleFile(
           MarkFile(CountExt(CountFile(a), Lower(Suffix(item.path))),
                    Basename(item.path)),
           item.path)
    ELSE IF item.type = "tree" /\ Len(a.directories) < MaxDirs
    THEN [a EXCEPT !.directories = Append(@, item.path)]
    ELSE a

\* body of 'for file in files' of the local walk
ScanLocalFile(a, rel_root, file) ==
    SampleFile(
      MarkFile(CountExt(CountFile(a), Lower(Suffix(file))), file),
      PathJoin(rel_root, file))

\* if len(analysis['directories']) < 50:
\*     analysis['directories'].extend([os.path.join(rel_root, d) for d in dirs])
ExtendDirectories(a, rel_root, ds) ==
    IF Len(a.directories) < MaxDirs
    THEN [a EXCEPT !.directories =
            @ \o [i \in 1..Len(ds) |-> PathJoin(rel_root, ds[i])]]
    ELSE a

\* PruneDirs as it would be if nothing were pruned
KeepAllDirs(ds) == ds

\* dirs[:] = [d for d in dirs if d not in [...]]
RECURSIVE PruneDirs(_)
PruneDirs(ds) ==
    IF Len(ds) = 0 THEN <<>>
    ELSE IF ds[1] \in DenyList THEN PruneDirs(Tail(ds))
         ELSE <<ds[1]>> \o PruneDirs(Tail(ds))

(***************************************************************************)
(* State.                                                                  *)
(***************************************************************************)
VARIABLES
    pc,               \* position of the running analyzer
    github_url,       \* argument of fetch_github_repo_structure
    owner,            \* owner, repo = parts.split('/')[:2]
    repo,
    requests,         \* the HTTP requests issued so far, with their outcome
    repo_data,        \* repo_response.json()
    tree,             \* tree_data.get('tree', [])
    idx,              \* position of the for loop in tree (1-based)
    analysis,         \* the summary under construction
    ret,              \* the value returned, None while running
    fs,               \* the directory tree handed to analyze_local_directory
    stack,            \* directories os.walk has still to yield
    root,             \* the directory os.walk yielded last
    dirs,             \* its subdirectory names after pruning
    fidx,             \* position of 'for file in files' (1-based)
    visited,          \* history: names of the files the loops have handled
    project_analysis, \* st.session_state
    github_analysis,
    analysis_result,
    readme_content,
    manual_input,
    api_key,          \* the key the sidebar provides, None when absent
    fetched,          \* what the last Fetch Repository run got back
    last,             \* history: the handler that ran last, and the reply
                      \* the completion endpoint gave it
    done              \* history: which of Analyze and Generate README have
                      \* run since the session started or was last cleared

fetchVars == <<github_url, owner, repo, requests, repo_data, tree, idx>>
walkVars == <<fs, stack, root, dirs, fidx>>
sessionVars == <<project_analysis, github_analysis, analysis_result,
                 readme_content, manual_input, api_key, fetched, last,
                 done>>
vars == <<pc, analysis, ret, visited, fetchVars, walkVars, sessionVars>>

(***************************************************************************)
(* Inputs of the remote fetch.                                             *)
(***************************************************************************)
HttpsPrefix == <<"h", "t", "t", "p", "s", ":", "/", "/", "g", "i", "t", "h", "u", "b", ".", "c", "o", "m", "/">>
HttpPrefix == <<"h", "t", "t", "p", ":", "/", "/", "g", "i", "t", "h", "u", "b", ".", "c", "o", "m", "/">>

UrlWidget == <<"h", "t", "t", "p", "s", ":", "/", "/", "g", "i", "t", "h", "u", "b", ".", "c", "o", "m", "/", "a", "c", "m", "e", "/", "w", "i", "d", "g", "e", "t">>
UrlOnlyOwner == <<"h", "t", "t", "p", "s", ":", "/", "/", "g", "i", "t", "h", "u", "b", ".", "c", "o", "m", "/", "o", "n", "l", "y", "o", "w", "n", "e", "r">>
UrlDoubleSlash == <<"h", "t", "t", "p", "s", ":", "/", "/", "g", "i", "t", "h", "u", "b", ".", "c", "o", "m", "/", "a", "c", "m", "e", "/", "/", "w", "i", "d", "g", "e", "t">>
UrlHostOnly == <<"h", "t", "t", "p", "s", ":", "/", "/", "g", "i", "t", "h", "u", "b", ".", "c", "o", "m", "/">>
UrlHttpSlash == <<"h", "t", "t", "p", ":", "/", "/", "g", "i", "t", "h", "u", "b", ".", "c", "o", "m", "/", "a", "c", "m", "e", "/", "g", "a", "d", "g", "e", "t", "/">>
UrlBare == <<"o", "n", "l", "y", "o", "w", "n", "e", "r">>

\* the references a user may type (the handler runs only for a non-empty one)
GithubUrls ==
    { UrlWidget, UrlOnlyOwner, UrlDoubleSlash, UrlHostOnly, UrlHttpSlash, UrlBare }

\* a repository metadata document
WidgetData ==
    [ name |-> "widget", description |-> "A widget", language |-> "Python",
      stargazers_count |-> 5, forks_count |-> 1, open_issues_count |-> 0,
      topics |-> <<"tools">>, default_branch |-> "main" ]

\* an HTTP exchange: the transport raises, or a response with a status code
\* and a body that is a JSON document or, when None, not JSON
Raised == [kind |-> "raise"]
Response(status, body) == [kind |-> "http", status |-> status, body |-> body]

RepoResponses ==
    { Raised,
      Response(200, WidgetData),
      Response(200, [message |-> "ok"]),
      Response(200, None),
      Response(404, [message |-> "Not Found"]),
      Response(403, [documentation_url |-> "docs"]),
      Response(502, None) }

Blob(p) == [path |-> p, type |-> "blob"]
Tree(p) == [path |-> p, type |-> "tree"]
Commit(p) == [path |-> p, type |-> "commit"]
Untyped(p) == [path |-> p]

\* m<i>.py, d<i>: entries that only add to the counts
FillerFile(i) == <<"m">> \o Decimal(i) \o <<".", "p", "y">>
FillerDir(i) == <<"d">> \o Decimal(i)

\* numbers of filler files and directories: about a cap
Around(cap) == {n \in (cap - Slack)..(cap + Slack) : n >= 0}
FillerCounts ==
    {<<n, 0>> : n \in Around(MaxFiles)} \cup {<<0, n>> : n \in Around(MaxDirs)}

TailItems ==
    { Blob(<<"r", "e", "q", "u", "i", "r", "e", "m", "e", "n", "t", "s", ".", "t", "x", "t">>),
      Blob(<<"r", "e", "q", "u", "i", "r", "e", "m", "e", "n", "t", "s", "-", "t", "e", "s", "t", ".", "t", "x", "t">>),
      Blob(<<"P", "a", "c", "k", "a", "g", "e", ".", "J", "S", "O", "N">>),
      Blob(<<"D", "o", "c", "k", "e", "r", "f", "i", "l", "e">>),
      Blob(<<"t", "e", "s", "t", "_", "m", "a", "i", "n", ".", "p", "y">>),
      Blob(<<"s", "r", "c", "/", "M", "a", "i", "n", ".", "P", "Y">>),
      Tree(<<"s", "r", "c">>),
      Commit(<<"v", "e", "n", "d", "o", "r">>),
      Untyped(<<"o", "d", "d">>) }

\* lists of distinct items of length at most n
RECURSIVE Distinct(_, _)
Distinct(S, n) ==
    IF n = 0 THEN {<<>>}
    ELSE LET shorter == Distinct(S, n - 1) IN
         shorter \cup
         { Append(p[1], p[2]) :
             p \in { q \in shorter \X S :
                       /\ Len(q[1]) = n - 1
                       /\ \A i \in 1..Len(q[1]) : q[1][i] # q[2] } }

\* a few hand-picked entries, or filler entries up to about a cap followed
\* by at most one hand-picked entry
TreeListings ==
    Distinct(TailItems, MaxTail) \cup
    { [i \in 1..c[1] |-> Blob(FillerFile(i))] \o
      [i \in 1..c[2] |-> Tree(FillerDir(i))] \o t :
        c \in FillerCounts, t \in Distinct(TailItems, 1) }

TreeResponses ==
    { Raised, Response(404, [message |-> "Not Found"]), Response(200, None),
      Response(200, [sha |-> "abc"]) }
    \cup { Response(200, [tree |-> t]) : t \in TreeListings }

(***************************************************************************)
(* fetch_github_repo_structure.                                            *)
(***************************************************************************)
\* github_url.replace('https://github.com/', '')
\*           .replace('http://github.com/', '').strip('/')
UrlParts(url) ==
    Strip(Replace(Replace(url, HttpsPrefix, <<>>), HttpPrefix, <<>>), "/")

\* any exception: return None, f"Error: {str(e)}"
Raise(what) == Result(None, ErrorMsg("Error", 0, what))

\* the format test and owner, repo = parts.split('/')[:2]: where the
\* function goes next, what it returns if it returns, and owner and repo
ParseUrl(url) ==
    LET parts == UrlParts(url) IN
    IF ~Contains(parts, <<"/">>)
    THEN [pc |-> "done",
          ret |-> Result(None, ErrorMsg("Invalid GitHub URL format", 0, "")),
          owner |-> <<>>, repo |-> <<>>]
    ELSE [pc |-> "repo_get", ret |-> None,
          owner |-> Split(parts, "/")[1], repo |-> Split(parts, "/")[2]]

\* what the log of requests keeps of a reply: its status code, 0 when the
\* transport raised
StatusOf(resp) == IF resp.kind = "raise" THEN 0 ELSE resp.status

\* RepoReply as it would be if a transport failure were retried
RepoReplyRetry(resp) ==
    IF resp.kind = "raise"
    THEN [pc |-> "repo_get", ret |-> None, data |-> None]
    ELSE IF resp.body = None
    THEN [pc |-> "done", ret |-> Raise("json"), data |-> None]
    ELSE IF resp.status # 200
    THEN [pc |-> "done",
          ret |-> Result(None, ErrorMsg("Error", resp.status, "Unknown error")),
          data |-> None]
    ELSE [pc |-> "tree_get", ret |-> None, data |-> resp.body]

\* the reply to the metadata request: the status test and .json()
RepoReply(resp) ==
    IF resp.kind = "raise"
    THEN [pc |-> "done", ret |-> Raise("transport"), data |-> None]
    ELSE IF resp.body = None
    THEN [pc |-> "done", ret |-> Raise("json"), data |-> None]
    ELSE IF resp.status # 200
    THEN [pc |-> "done",
          ret |-> Result(None,
                    ErrorMsg("Error", resp.status,
                             IF "message" \in DOMAIN resp.body
                             THEN resp.body.message ELSE "Unknown error")),
          data |-> None]
    ELSE [pc |-> "tree_get", ret |-> None, data |-> resp.body]

\* the reply to the tree request: the status test, .json() and .get('tree', [])
TreeReply(resp) ==
    IF resp.kind = "raise"
    THEN [pc |-> "done", ret |-> Raise("transport"), tree |-> <<>>]
    ELSE IF resp.status # 200
    THEN [pc |-> "done",
          ret |-> Result(None, ErrorMsg("Error fetching tree", resp.status, "")),
          tree |-> <<>>]
    ELSE IF resp.body = None
    THEN [pc |-> "done", ret |-> Raise("json"), tree |-> <<>>]
    ELSE [pc |-> "loop", ret |-> None,
          tree |-> IF "tree" \in DOMAIN resp.body THEN resp.body.tree ELSE <<>>]

\* the whole loop over the tree: the pair returned after it, or after the
\* KeyError of an item without 'type'
RECURSIVE ScanTree(_, _)
ScanTree(a, items) ==
    IF Len(items) = 0 THEN Result(a, None)
    ELSE IF "type" \notin DOMAIN Head(items) THEN Raise("KeyError")
    ELSE ScanTree(ScanTreeItem(a, Head(items)), Tail(items))

\* the function from the parsed reference on, given the replies the two
\* requests would get
FetchParsed(parsed, url, repoResp, treeResp) ==
    LET first == RepoReply(repoResp)
        second == TreeReply(treeResp)
    IN IF parsed.pc = "done" THEN parsed.ret
       ELSE IF first.pc = "done" THEN first.ret
       ELSE IF "default_branch" \notin DOMAIN first.data THEN Raise("KeyError")
       ELSE IF second.pc = "done" THEN second.ret
       ELSE ScanTree(NewGithubAnalysis(first.data, parsed.owner, url), second.tree)

\* the function as a whole
FetchGithubRepoStructure(url, repoResp, treeResp) ==
    FetchParsed(ParseUrl(url), url, repoResp, treeResp)

\* the steps of the function, one action each
ParseStep ==
    /\ pc = "parse"
    /\ pc' = ParseUrl(github_url).pc
    /\ ret' = ParseUrl(github_url).ret
    /\ owner' = ParseUrl(github_url).owner
    /\ repo' = ParseUrl(github_url).repo
    /\ UNCHANGED <<github_url, requests, repo_data, tree, idx>>
    /\ UNCHANGED <<analysis, visited, walkVars, sessionVars>>

\* repo_response = requests.get(api_base, headers=headers)
RepoGet ==
    /\ pc = "repo_get"
    /\ \E resp \in RepoResponses :
         /\ requests' = Append(requests,
                          [endpoint |-> "repos", owner |-> owner, repo |-> repo,
                           status |-> StatusOf(resp)])
         /\ pc' = RepoReply(resp).pc
         /\ ret' = RepoReply(resp).ret
         /\ repo_data' = RepoReply(resp).data
    /\ UNCHANGED <<github_url, owner, repo, tree, idx>>
    /\ UNCHANGED <<analysis, visited, walkVars, sessionVars>>

\* repo_data['default_branch'] raises KeyError while tree_url is built
BranchMissing ==
    /\ pc = "tree_get"
    /\ "default_branch" \notin DOMAIN repo_data
    /\ ret' = Raise("KeyError")
    /\ pc' = "done"
    /\ UNCHANGED <<analysis, visited, fetchVars, walkVars, sessionVars>>

\* tree_response = requests.get(tree_url, headers=headers); on success the
\* empty summary is built and the loop begins
TreeGet ==
    /\ pc = "tree_get"
    /\ "default_branch" \in DOMAIN repo_data
    /\ \E resp \in TreeResponses :
         /\ requests' = Append(requests,
                          [endpoint |-> "git/trees", owner |-> owner,
                           repo |-> repo, status |-> StatusOf(resp)])
         /\ pc' = TreeReply(resp).pc
         /\ ret' = TreeReply(resp).ret
         /\ tree' = TreeReply(resp).tree
         /\ IF TreeReply(resp).pc = "loop"
            THEN /\ analysis' = NewGithubAnalysis(repo_data, owner, github_url)
                 /\ idx' = 1
            ELSE UNCHANGED <<analysis, idx>>
    /\ UNCHANGED <<github_url, owner, repo, repo_data>>
    /\ UNCHANGED <<visited, walkVars, sessionVars>>

\* one iteration of 'for item in tree_data.get('tree', [])'
TreeItem ==
    /\ pc = "loop"
    /\ idx <= Len(tree)
    /\ "type" \in DOMAIN tree[idx]
    /\ analysis' = ScanTreeItem(analysis, tree[idx])
    /\ visited' = IF tree[idx].type = "blob"
                  THEN Append(visited, tree[idx].path) ELSE visited
    /\ idx' = idx + 1
    /\ UNCHANGED <<pc, ret, walkVars, sessionVars>>
    /\ UNCHANGED <<github_url, owner, repo, requests, repo_data, tree>>

\* item['type'] raises KeyError: the summary built so far is dropped
TreeItemUntyped ==
    /\ pc = "loop"
    /\ idx <= Len(tree)
    /\ "type" \notin DOMAIN tree[idx]
    /\ ret' = Raise("KeyError")
    /\ pc' = "done"
    /\ UNCHANGED <<analysis, visited, fetchVars, walkVars, sessionVars>>

\* return analysis, None
TreeDone ==
    /\ pc = "loop"
    /\ idx > Len(tree)
    /\ ret' = Result(analysis, None)
    /\ pc' = "done"
    /\ UNCHANGED <<analysis, visited, fetchVars, walkVars, sessionVars>>

FetchNext ==
    \/ ParseStep
    \/ RepoGet
    \/ BranchMissing
    \/ TreeGet
    \/ TreeItem
    \/ TreeItemUntyped
    \/ TreeDone

(***************************************************************************)
(* Inputs of the local scan: a directory is its file names and its         *)
(* subdirectories, in the order the operating system lists them.           *)
(***************************************************************************)
Directory(files, subdirs) == [files |-> files, dirs |-> subdirs]
Entry(name, node) == [name |-> name, node |-> node]

LocalFiles ==
    { <<"i", "n", "d", "e", "x", ".", "j", "s">>, <<"r", "e", "q", "u", "i", "r", "e", "m", "e", "n", "t", "s", ".", "t", "x", "t">>, <<"r", "e", "q", "u", "i", "r", "e", "m", "e", "n", "t", "s", "-", "t", "e", "s", "t", ".", "t", "x", "t">>,
      <<"D", "O", "C", "K", "E", "R", "F", "I", "L", "E">>, <<".", "g", "i", "t", "i", "g", "n", "o", "r", "e">>, <<"T", "e", "s", "t", "_", "A", "p", "p", ".", "P", "Y">> }

\* the subdirectories next to the filler ones: none, or one directory that
\* holds a package manifest and a nested directory with a container file
Subtrees ==
    {<<>>} \cup
    { <<Entry(outer, Directory(<<<<"p", "a", "c", "k", "a", "g", "e", ".", "j", "s", "o", "n">>>>,
              <<Entry(inner, Directory(<<<<"D", "o", "c", "k", "e", "r", "f", "i", "l", "e">>>>, <<>>))>>))>> :
        outer \in {<<"s", "r", "c">>, <<"n", "o", "d", "e", "_", "m", "o", "d", "u", "l", "e", "s">>, <<"B", "u", "i", "l", "d">>},
        inner \in {<<".", "g", "i", "t">>, <<"t", "e", "s", "t", "s">>} }

\* a few hand-picked files, or filler files and directories up to about a
\* cap and at most one hand-picked file, next to one of the subtrees
LocalTrees ==
    { Directory(t, s) : t \in Distinct(LocalFiles, MaxTail - 1), s \in Subtrees }
    \cup
    { Directory([i \in 1..c[1] |-> FillerFile(i)] \o t,
                [i \in 1..c[2] |-> Entry(FillerDir(i), Directory(<<>>, <<>>))] \o s) :
        c \in FillerCounts, t \in Distinct(LocalFiles, 1), s \in Subtrees }

(***************************************************************************)
(* analyze_local_directory, one action per step of os.walk and its body.   *)
(***************************************************************************)
\* os.path.relpath(os.path.join(root, name), path)
ChildRel(rel, name) == IF rel = <<".">> THEN name ELSE PathJoin(rel, name)

DirNames(node) == [i \in 1..Len(node.dirs) |-> node.dirs[i].name]

ChildNode(node, name) ==
    node.dirs[CHOOSE i \in 1..Len(node.dirs) : node.dirs[i].name = name].node

\* os.walk yields the next directory; the body prunes its dirs in place
WalkYield ==
    /\ pc = "walk"
    /\ stack # <<>>
    /\ root' = Head(stack)
    /\ stack' = Tail(stack)
    /\ dirs' = PruneDirs(DirNames(Head(stack).node))
    /\ fidx' = 1
    /\ pc' = "files"
    /\ UNCHANGED <<fs, analysis, ret, visited, fetchVars, sessionVars>>

\* one iteration of 'for file in files'
WalkFile ==
    /\ pc = "files"
    /\ fidx <= Len(root.node.files)
    /\ analysis' = ScanLocalFile(analysis, root.rel, root.node.files[fidx])
    /\ visited' = Append(visited, PathJoin(root.rel, root.node.files[fidx]))
    /\ fidx' = fidx + 1
    /\ UNCHANGED <<pc, ret, fs, stack, root, dirs, fetchVars, sessionVars>>

\* the directories of root are recorded, and os.walk resumes: it will
\* descend into what is left in dirs, first one first
WalkDirs ==
    /\ pc = "files"
    /\ fidx > Len(root.node.files)
    /\ analysis' = ExtendDirectories(analysis, root.rel, dirs)
    /\ stack' = [i \in 1..Len(dirs) |->
                    [rel |-> ChildRel(root.rel, dirs[i]),
                     node |-> ChildNode(root.node, dirs[i])]] \o stack
    /\ pc' = "walk"
    /\ UNCHANGED <<ret, visited, fs, root, dirs, fidx, fetchVars, sessionVars>>

\* return analysis
WalkDone ==
    /\ pc = "walk"
    /\ stack = <<>>
    /\ ret' = analysis
    /\ pc' = "done"
    /\ UNCHANGED <<analysis, visited, fetchVars, walkVars, sessionVars>>

\* the function as a whole: os.walk over a stack of directories, top first
RECURSIVE WalkAll(_, _)
WalkAll(a, todo) ==
    IF Len(todo) = 0 THEN a
    ELSE LET top == Head(todo)
             kept == PruneDirs(DirNames(top.node))
             RECURSIVE ScanFiles(_, _)
             ScanFiles(b, i) ==
                 IF i > Len(top.node.files) THEN b
                 ELSE ScanFiles(ScanLocalFile(b, top.rel, top.node.files[i]), i + 1)
         IN WalkAll(ExtendDirectories(ScanFiles(a, 1), top.rel, kept),
                    [i \in 1..Len(kept) |->
                        [rel |-> ChildRel(top.rel, kept[i]),
                         node |-> ChildNode(top.node, kept[i])]] \o Tail(todo))

AnalyzeLocalDirectory(dir) ==
    WalkAll(NewLocalAnalysis, <<[rel |-> <<".">>, node |-> dir]>>)

WalkNext ==
    \/ WalkYield
    \/ WalkFile
    \/ WalkDirs
    \/ WalkDone

(***************************************************************************)
(* One run of one analyzer on one input.                                   *)
(***************************************************************************)
SessionIdle ==
    /\ project_analysis = None
    /\ github_analysis = None
    /\ analysis_result = None
    /\ readme_content = None
    /\ manual_input = None
    /\ api_key = None
    /\ fetched = None
    /\ last = [op |-> "start", reply |-> None]
    /\ done = {}

FetchIdle ==
    /\ github_url = <<>>
    /\ owner = <<>>
    /\ repo = <<>>
    /\ requests = <<>>
    /\ repo_data = None
    /\ tree = <<>>
    /\ idx = 0

WalkIdle ==
    /\ fs = None
    /\ stack = <<>>
    /\ root = None
    /\ dirs = <<>>
    /\ fidx = 0

InitFetch ==
    /\ pc = "parse"
    /\ github_url \in GithubUrls
    /\ owner = <<>>
    /\ repo = <<>>
    /\ requests = <<>>
    /\ repo_data = None
    /\ tree = <<>>
    /\ idx = 0
    /\ analysis = None
    /\ WalkIdle

InitWalk ==
    /\ pc = "walk"
    /\ fs \in LocalTrees
    /\ stack = <<[rel |-> <<".">>, node |-> fs]>>
    /\ root = None
    /\ dirs = <<>>
    /\ fidx = 0
    /\ analysis = NewLocalAnalysis
    /\ FetchIdle

Init ==
    /\ InitFetch \/ InitWalk
    /\ ret = None
    /\ visited = <<>>
    /\ SessionIdle

Next ==
    \/ FetchNext
    \/ WalkNext

Spec == Init /\ [][Next]_vars

(***************************************************************************)
(* The Streamlit session: every button handler is one action, run to its   *)
(* end within one rerun of the script.                                     *)
(***************************************************************************)
\* a Python string held in the session
Text(s) == [text |-> s]

\* Python truthiness of a session value: None and '' are false, a string
\* with characters and a dict with keys are true
Truthy(v) == v # None /\ v # Text("")

\* tree listings and directories offered to the handlers
SessionListings ==
    Distinct({Blob(<<"r", "e", "q", "u", "i", "r", "e", "m", "e", "n", "t", "s", ".", "t", "x", "t">>), Untyped(<<"o", "d", "d">>)}, MaxTail - 2)

SessionTreeResponses ==
    { Raised, Response(404, [message |-> "Not Found"]) }
    \cup { Response(200, [tree |-> t]) : t \in SessionListings }

SessionDirs ==
    { Directory(<<<<"i", "n", "d", "e", "x", ".", "j", "s">>>>,
                <<Entry(<<"n", "o", "d", "e", "_", "m", "o", "d", "u", "l", "e", "s">>,
                        Directory(<<<<"p", "a", "c", "k", "a", "g", "e", ".", "j", "s", "o", "n">>>>, <<>>))>>),
      Directory(<<<<"t", "e", "s", "t", "_", "a", "p", "p", ".", "p", "y">>>>, <<>>) }

\* the replies of the completion endpoint: an exception, or a completion text
GroqReplies ==
    { Raised, [kind |-> "completion", content |-> "generated text"],
      [kind |-> "completion", content |-> ""] }

\* f"Error calling Groq API: {str(e)}" for the exception of the Raised reply
GroqErrorText == Text("Error calling Groq API: failure")

\* CallGroqApi as it would be if a failure were an outcome of its own
CallGroqApiDistinct(key, prompt, reply) ==
    IF reply.kind = "raise" THEN None
    ELSE Text(reply.content)

\* call_groq_api: the completion text, or the error rendered as text
CallGroqApi(key, prompt, reply) ==
    IF reply.kind = "raise" THEN GroqErrorText
    ELSE Text(reply.content)

\* what distinguishes the prompts of create_analysis_prompt
AnalysisPrompt(a, is_github) ==
    [is_github |-> is_github, file_count |-> a.file_count]

\* the github_info block of create_readme_prompt
ReadmePrompt(result, gh) ==
    [analysis_result |-> result,
     github_info |-> IF Truthy(gh) THEN gh.repo_url ELSE <<>>]

\* history: the handler that has just run, with the reply of the completion
\* endpoint when it called call_groq_api
Ran(op, reply) == [op |-> op, reply |-> reply]

\* the sidebar: a custom key is typed or removed, or the default is used
EnterApiKey ==
    /\ pc = "session"
    /\ \E k \in {None, Text("gsk")} :
         /\ k # api_key
         /\ api_key' = k
    /\ last' = Ran("EnterApiKey", None)
    /\ UNCHANGED done
    /\ UNCHANGED <<project_analysis, github_analysis, analysis_result,
                   readme_content, manual_input, fetched>>
    /\ UNCHANGED <<pc, analysis, ret, visited, fetchVars, walkVars>>

\* source type 'Manual Input': the form is stored on every rerun
ManualInput ==
    /\ pc = "session"
    /\ \E d \in {"", "a tool"} :
         manual_input' = [description |-> d, tech_stack |-> "", features |-> ""]
    /\ last' = Ran("ManualInput", None)
    /\ UNCHANGED done
    /\ UNCHANGED <<project_analysis, github_analysis, analysis_result,
                   readme_content, api_key, fetched>>
    /\ UNCHANGED <<pc, analysis, ret, visited, fetchVars, walkVars>>

\* StoreFetched as it would be if the result were stored whatever it is
StoreAlways(res, project, github) == <<res.analysis, res.analysis>>

\* what the Fetch Repository handler stores for a result of the fetch:
\* the new <<project_analysis, github_analysis>>
StoreFetched(res, project, github) ==
    IF Truthy(res.error) THEN <<project, github>>
    ELSE <<res.analysis, res.analysis>>

\* analysis, error = fetch_github_repo_structure(github_url, github_token):
\* the pairs it can return for the references and replies offered
FetchOutcomes ==
    { FetchGithubRepoStructure(url, r1, r2) :
        url \in GithubUrls, r1 \in RepoResponses, r2 \in SessionTreeResponses }

\* analysis = analyze_local_directory(local_path)
ScanOutcomes == { AnalyzeLocalDirectory(dir) : dir \in SessionDirs }

\* button 'Fetch Repository', shown for a non-empty reference
FetchRepository ==
    /\ pc = "session"
    /\ \E res \in FetchOutcomes :
         /\ fetched' = res
         /\ project_analysis' = StoreFetched(res, project_analysis, github_analysis)[1]
         /\ github_analysis' = StoreFetched(res, project_analysis, github_analysis)[2]
    /\ last' = Ran("FetchRepository", None)
    /\ UNCHANGED done
    /\ UNCHANGED <<analysis_result, readme_content, manual_input, api_key>>
    /\ UNCHANGED <<pc, analysis, ret, visited, fetchVars, walkVars>>

\* button 'Scan Directory', shown for a path that exists
ScanDirectory ==
    /\ pc = "session"
    /\ \E scanned \in ScanOutcomes :
         project_analysis' = scanned
    /\ last' = Ran("ScanDirectory", None)
    /\ UNCHANGED done
    /\ UNCHANGED <<github_analysis, analysis_result, readme_content,
                   manual_input, api_key, fetched>>
    /\ UNCHANGED <<pc, analysis, ret, visited, fetchVars, walkVars>>

\* tab 'AI Analysis' shows its form and button
AnalyzeOffered ==
    /\ Truthy(api_key)
    /\ Truthy(project_analysis) \/ Truthy(manual_input)

\* button 'Analyze with AI'
AnalyzeWithAI ==
    /\ pc = "session"
    /\ AnalyzeOffered
    /\ \E reply \in GroqReplies :
         /\ analysis_result' =
               CallGroqApi(api_key,
                           IF Truthy(project_analysis)
                           THEN AnalysisPrompt(project_analysis,
                                               "repo_url" \in DOMAIN project_analysis)
                           ELSE manual_input,
                           reply)
         /\ last' = Ran("AnalyzeWithAI", reply)
    /\ done' = done \cup {"AnalyzeWithAI"}
    /\ UNCHANGED <<project_analysis, github_analysis, readme_content,
                   manual_input, api_key, fetched>>
    /\ UNCHANGED <<pc, analysis, ret, visited, fetchVars, walkVars>>

\* tab 'AI Analysis' shows 'Analysis complete!'
AnalysisComplete == Truthy(analysis_result)

\* GenerateOffered as it would be if only the key were asked for
GenerateOfferedWithKey == Truthy(api_key)

\* tab 'Preview' shows the README and its download button
PreviewOffered == Truthy(readme_content)

\* tab 'Generate README' shows its form and button
GenerateOffered == Truthy(api_key) /\ Truthy(analysis_result)

\* button 'Generate README'
GenerateReadme ==
    /\ pc = "session"
    /\ GenerateOffered
    /\ \E reply \in GroqReplies :
         /\ readme_content' =
               CallGroqApi(api_key, ReadmePrompt(analysis_result, github_analysis),
                           reply)
         /\ last' = Ran("GenerateReadme", reply)
    /\ done' = done \cup {"GenerateReadme"}
    /\ UNCHANGED <<project_analysis, github_analysis, analysis_result,
                   manual_input, api_key, fetched>>
    /\ UNCHANGED <<pc, analysis, ret, visited, fetchVars, walkVars>>

\* ClearedKeys as it would be if the loop left github_analysis out
ClearedKeysPartial == {"readme_content", "analysis_result", "project_analysis"}

\* the keys the loop of Clear All deletes
ClearedKeys ==
    {"readme_content", "analysis_result", "project_analysis", "github_analysis"}

\* the value of a session key once the loop has run and the rerun has
\* initialised the keys that are missing
AfterClear(key, value) == IF key \in ClearedKeys THEN None ELSE value

\* button 'Clear All', shown with the preview: the keys are deleted and the
\* rerun it asks for initialises them again
ClearAll ==
    /\ pc = "session"
    /\ PreviewOffered
    /\ readme_content' = AfterClear("readme_content", readme_content)
    /\ analysis_result' = AfterClear("analysis_result", analysis_result)
    /\ project_analysis' = AfterClear("project_analysis", project_analysis)
    /\ github_analysis' = AfterClear("github_analysis", github_analysis)
    /\ manual_input' = AfterClear("manual_input", manual_input)
    /\ last' = Ran("ClearAll", None)
    /\ done' = {}
    /\ UNCHANGED <<api_key, fetched>>
    /\ UNCHANGED <<pc, analysis, ret, visited, fetchVars, walkVars>>

SessionNext ==
    \/ EnterApiKey
    \/ ManualInput
    \/ FetchRepository
    \/ ScanDirectory
    \/ AnalyzeWithAI
    \/ GenerateReadme
    \/ ClearAll

\* the state after the first run of the script
SessionInit ==
    /\ pc = "session"
    /\ SessionIdle
    /\ FetchIdle
    /\ WalkIdle
    /\ analysis = None
    /\ ret = None
    /\ visited = <<>>

SessionSpec == SessionInit /\ [][SessionNext]_vars

(***************************************************************************)
(* Properties.                                                             *)
(***************************************************************************)
\* which analyzer the run is of
IsFetch == github_url # <<>>
IsWalk == fs # None

Min(a, b) == IF a < b THEN a ELSE b

ReqTestName == <<"r", "e", "q", "u", "i", "r", "e", "m", "e", "n", "t", "s", "-", "t", "e", "s", "t", ".", "t", "x", "t">>

\* C1: in both modes, after every step of the traversal, 'files' has at
\* most 100 entries and 'directories' at most 50.
C1_SampleCaps ==
    analysis # None =>
        /\ Len(analysis.files) <= MaxFiles
        /\ Len(analysis.directories) <= MaxDirs

\* the blobs of a tree listing
BlobCount(items) ==
    Cardinality({i \in 1..Len(items) :
                    "type" \in DOMAIN items[i] /\ items[i].type = "blob"})

\* the files of a directory tree outside deny-listed directories
RECURSIVE KeptFileCount(_)
KeptFileCount(node) ==
    LET RECURSIVE Below(_)
        Below(i) ==
            IF i > Len(node.dirs) THEN 0
            ELSE (IF node.dirs[i].name \in DenyList THEN 0
                  ELSE KeptFileCount(node.dirs[i].node)) + Below(i + 1)
    IN Len(node.files) + Below(1)

\* C2: in both modes file_count is the number of files visited, whatever
\* the cap on 'files': at every step file_count >= len(files) and
\* len(files) = min(file_count, 100), and at the end file_count is the number
\* of blobs of the listing (remote) or of files in non-pruned directories
\* (local).
C2_FileCount ==
    analysis # None =>
        /\ analysis.file_count = Len(visited)
        /\ analysis.file_count >= Len(analysis.files)
        /\ Len(analysis.files) = Min(analysis.file_count, MaxFiles)
        /\ (pc = "done" /\ IsFetch /\ ret.error = None) =>
              ret.analysis.file_count = BlobCount(tree)
        /\ (pc = "done" /\ IsWalk) => ret.file_count = KeptFileCount(fs)

\* a fetch that returned a summary of more files than the sample holds
C2_Witness ==
    /\ pc = "done"
    /\ IsFetch
    /\ ret.error = None
    /\ ret.analysis.file_count > MaxFiles
    /\ Len(ret.analysis.files) = MaxFiles

RECURSIVE SumOver(_, _)
SumOver(f, S) ==
    IF S = {} THEN 0
    ELSE LET x == CHOOSE y \in S : TRUE IN f[x] + SumOver(f, S \ {x})

HistogramTotal(a) == SumOver(a.languages, DOMAIN a.languages)

\* the visited files whose name has an extension
WithExtension(paths) ==
    Cardinality({i \in 1..Len(paths) : Suffix(paths[i]) # <<>>})

IsUpper(c) == \E i \in 1..Len(UpperChars) : UpperChars[i] = c

HistogramKeysOk(a) ==
    \A e \in DOMAIN a.languages :
        /\ Len(e) >= 1
        /\ e[1] = "."
        /\ \A k \in 1..Len(e) : ~IsUpper(e[k])
        /\ a.languages[e] >= 1

\* C3: every key of 'languages' is a lowercase extension beginning with '.',
\* a file without extension adds to file_count and to no histogram entry,
\* and the histogram counts sum to the number of visited files that have an
\* extension.
C3_Histogram ==
    [][ /\ analysis' # None =>
              /\ HistogramKeysOk(analysis')
              /\ HistogramTotal(analysis') = WithExtension(visited')
        /\ (analysis # None /\ visited' # visited
              /\ Suffix(visited'[Len(visited')]) = <<>>) =>
              /\ analysis'.file_count = analysis.file_count + 1
              /\ analysis'.languages = analysis.languages ]_vars

\* a finished run that saw a file without extension and one whose
\* extension is written in upper case
C3_Witness ==
    /\ pc = "done"
    /\ analysis # None
    /\ \E i \in 1..Len(visited) : Suffix(visited[i]) = <<>>
    /\ \E i \in 1..Len(visited) : Suffix(visited[i]) # Lower(Suffix(visited[i]))
    /\ HistogramTotal(analysis) < analysis.file_count
    /\ HistogramTotal(analysis) >= 1

Flags == {"has_requirements", "has_package_json", "has_dockerfile", "has_tests"}

ExactNames == RequirementsNames \cup PackageNames \cup DockerNames

\* the flag of the exact-match set a lower-cased name is in
FlagOf(low) ==
    IF low \in RequirementsNames THEN "has_requirements"
    ELSE IF low \in PackageNames THEN "has_package_json"
    ELSE "has_dockerfile"

\* C4: one visited file sets at most one of the four flags; a file whose
\* lower-cased name is in an exact-match set sets the flag of that set, is
\* appended to config_files once and leaves has_tests alone; has_tests is
\* set only by a file in none of the three sets; no flag is ever reset.
C4_MarkerChain ==
    [][ (analysis # None /\ analysis' # None) =>
          /\ \A f \in Flags : analysis[f] => analysis'[f]
          /\ visited' = visited =>
                /\ \A f \in Flags : analysis'[f] = analysis[f]
                /\ analysis'.config_files = analysis.config_files
          /\ visited' # visited =>
                LET name == Basename(visited'[Len(visited')])
                    low == Lower(name)
                IN /\ Cardinality({f \in Flags : analysis'[f] # analysis[f]}) <= 1
                   /\ low \in ExactNames =>
                         /\ analysis'[FlagOf(low)]
                         /\ analysis'.config_files =
                               Append(analysis.config_files, name)
                         /\ analysis'.has_tests = analysis.has_tests
                   /\ low \notin ExactNames =>
                         /\ analysis'.config_files = analysis.config_files
                         /\ \A f \in Flags \ {"has_tests"} :
                               analysis'[f] = analysis[f]
                         /\ analysis'.has_tests =
                               (analysis.has_tests \/ Contains(low, <<"t", "e", "s", "t">>)) ]_vars

\* a finished run over a manifest written in mixed case and a test file
C4_Witness ==
    /\ pc = "done"
    /\ analysis # None
    /\ analysis.config_files = <<<<"P", "a", "c", "k", "a", "g", "e", ".", "J", "S", "O", "N">>>>
    /\ analysis.has_package_json
    /\ analysis.has_tests
    /\ ~analysis.has_requirements
    /\ ~analysis.has_dockerfile

\* the input holds the single file requirements-test.txt and the run is over
OnlyReqTest ==
    /\ pc = "done"
    /\ \/ IsFetch /\ ret.error = None /\ tree = <<Blob(ReqTestName)>>
       \/ IsWalk /\ fs = Directory(<<ReqTestName>>, <<>>)

\* C5 as stated: a tree whose only file is requirements-test.txt yields
\* has_requirements, that name in config_files, and not has_tests.
C5_Original ==
    OnlyReqTest =>
        /\ analysis.has_requirements
        /\ \E i \in 1..Len(analysis.config_files) :
              analysis.config_files[i] = ReqTestName
        /\ ~analysis.has_tests

\* C5: requirements-test.txt is in none of the exact-match sets: a tree
\* whose only file it is yields has_tests, not has_requirements, and an
\* empty config_files.
C5_TestOnly ==
    OnlyReqTest =>
        /\ analysis.has_tests
        /\ ~analysis.has_requirements
        /\ ~analysis.has_package_json
        /\ ~analysis.has_dockerfile
        /\ analysis.config_files = <<>>

\* the local scan of a directory holding only requirements-test.txt is over
C5_Witness ==
    /\ pc = "done"
    /\ IsWalk
    /\ fs = Directory(<<ReqTestName>>, <<>>)
    /\ ret.file_count = 1

\* a path one of whose components is a deny-listed name
Denied(path) ==
    \E i \in 1..Len(Split(path, "/")) : Split(path, "/")[i] \in DenyList

\* the paths of the files outside deny-listed directories, a directory's own
\* files before those of its subdirectories
RECURSIVE KeptPaths(_, _)
KeptPaths(rel, node) ==
    LET RECURSIVE Below(_)
        Below(i) ==
            IF i > Len(node.dirs) THEN <<>>
            ELSE (IF node.dirs[i].name \in DenyList THEN <<>>
                  ELSE KeptPaths(ChildRel(rel, node.dirs[i].name),
                                 node.dirs[i].node)) \o Below(i + 1)
    IN [i \in 1..Len(node.files) |-> PathJoin(rel, node.files[i])] \o Below(1)

Range(s) == {s[i] : i \in 1..Len(s)}

\* C6: the local scan never visits a deny-listed directory at any depth: no
\* such directory and nothing below it is in 'directories', in 'files' or
\* among the files handled, and at the end the files handled, file_count,
\* the marker flags and config_files are those of the files outside
\* deny-listed directories.
C6_DenyList ==
    IsWalk =>
        /\ \A p \in Range(visited) \cup Range(analysis.files)
                     \cup Range(analysis.directories) : ~Denied(p)
        /\ \A i \in 1..Len(stack) : ~Denied(stack[i].rel)
        /\ root # None => ~Denied(root.rel)
        /\ pc = "done" =>
              LET kept == KeptPaths(<<".">>, fs)
                  names == {Lower(Basename(p)) : p \in Range(kept)}
              IN /\ visited = kept
                 /\ ret.file_count = Len(kept)
                 /\ ret.has_requirements = (names \cap RequirementsNames # {})
                 /\ ret.has_package_json = (names \cap PackageNames # {})
                 /\ ret.has_dockerfile = (names \cap DockerNames # {})
                 /\ Range(ret.config_files) \subseteq {Basename(p) : p \in Range(kept)}

\* the scan of a directory with index.js and a node_modules subtree is over
C6_Witness ==
    /\ pc = "done"
    /\ IsWalk
    /\ fs.files = <<<<"i", "n", "d", "e", "x", ".", "j", "s">>>>
    /\ DirNames(fs) = <<<<"n", "o", "d", "e", "_", "m", "o", "d", "u", "l", "e", "s">>>>
    /\ ret.file_count = 1
    /\ ~ret.has_package_json
    /\ ret.directories = <<>>

\* a reference without its scheme
SchemeStripped(url) ==
    IF StartsWith(url, <<"h", "t", "t", "p", "s", ":", "/", "/">>) THEN SubSeq(url, 9, Len(url))
    ELSE IF StartsWith(url, <<"h", "t", "t", "p", ":", "/", "/">>) THEN SubSeq(url, 8, Len(url))
    ELSE url

\* the pieces of a reference of the form <host>/<owner>/<name>
RefPieces(url) == Split(SchemeStripped(url), "/")

HasRefForm(url) ==
    /\ Len(RefPieces(url)) >= 3
    /\ \A i \in 1..3 : RefPieces(url)[i] # <<>>

InvalidFormat == Result(None, ErrorMsg("Invalid GitHub URL format", 0, ""))

\* C7: a reference that, without its scheme/host prefix and surrounding
\* slashes, has no '/' is rejected with the format error before any request
\* is issued; a request is issued only for a reference of the form
\* <host>/<owner>/<name>, with that owner and that name.
C7_RejectMalformed ==
    (IsFetch /\ pc # "parse") =>
        /\ ~HasRefForm(github_url) =>
              /\ requests = <<>>
              /\ pc = "done"
              /\ ret = InvalidFormat
        /\ requests # <<>> =>
              /\ HasRefForm(github_url)
              /\ \A i \in 1..Len(requests) :
                    /\ requests[i].owner = RefPieces(github_url)[2]
                    /\ requests[i].repo = RefPieces(github_url)[3]

\* the order and outcome of the requests of one fetch
CallsInOrder ==
    /\ Len(requests) <= 2
    /\ Len(requests) >= 1 => requests[1].endpoint = "repos"
    /\ Len(requests) = 2 =>
          /\ requests[2].endpoint = "git/trees"
          /\ requests[1].status = 200
    /\ \A i \in 1..Len(requests) :
          requests[i].status # 200 =>
              /\ i = Len(requests)
              /\ pc = "done"
              /\ ret.analysis = None
              /\ ret.error # None

\* C8 as stated: one fetch issues the metadata request exactly once, the
\* tree request at most once and only after a metadata reply of status 200,
\* and nothing after a request that failed.
C8_Original ==
    IsFetch =>
        /\ CallsInOrder
        /\ pc = "done" => Len(requests) >= 1

\* C8: one fetch issues at most two requests in a fixed order: the
\* metadata request at most once, exactly once when the reference passes
\* the format test and never when it is rejected; the tree request at most
\* once and only after a metadata reply of status 200; nothing after a
\* request that failed.
C8_CallOrder ==
    IsFetch =>
        /\ CallsInOrder
        /\ pc = "done" => ((requests = <<>>) <=> (ret = InvalidFormat))
        /\ pc \in {"tree_get", "loop"} => Len(requests) >= 1

\* a fetch is over whose metadata request succeeded and whose tree request
\* failed
C8_Witness ==
    /\ pc = "done"
    /\ Len(requests) = 2
    /\ requests[1].status = 200
    /\ requests[2].status = 404
    /\ ret.analysis = None

\* exactly one of the two components of a returned pair is None
OneOfPair(res) == (res.analysis = None) # (res.error = None)

\* C9: a fetch returns (None, message) on every failure and (summary, None)
\* on success, never both and never neither, and a Fetch Repository run
\* whose fetch failed leaves project_analysis, github_analysis,
\* analysis_result and readme_content as they were.
C9_NoPartialResult ==
    [][ FetchRepository =>
          /\ OneOfPair(fetched')
          /\ \A res \in FetchOutcomes : OneOfPair(res)
          /\ fetched'.error # None =>
                UNCHANGED <<project_analysis, github_analysis,
                            analysis_result, readme_content>>
          /\ fetched'.error = None =>
                /\ project_analysis' = fetched'.analysis
                /\ github_analysis' = fetched'.analysis ]_vars

\* a fetch has failed in a session that holds a summary, an analysis and a
\* README from before
C9_Witness ==
    /\ fetched # None
    /\ fetched.error # None
    /\ fetched.error.text = "Error fetching tree"
    /\ Truthy(project_analysis)
    /\ Truthy(github_analysis)
    /\ Truthy(analysis_result)
    /\ Truthy(readme_content)

\* C10: after any fetches and scans, every session field that holds a
\* summary holds that of the most recent fetch or scan, or is empty.
C10_NoStaleSummary ==
    github_analysis = None \/ github_analysis = project_analysis

\* the four session fields hold None
AllEmpty ==
    /\ readme_content = None
    /\ analysis_result = None
    /\ project_analysis = None
    /\ github_analysis = None

\* a step after which one of the four fields that held a value holds None
Emptied ==
    \/ readme_content # None /\ readme_content' = None
    \/ analysis_result # None /\ analysis_result' = None
    \/ project_analysis # None /\ project_analysis' = None
    \/ github_analysis # None /\ github_analysis' = None

\* C11: a Clear All step leaves readme_content, analysis_result,
\* project_analysis and github_analysis all None, and no step of any handler
\* empties some of the four without leaving all four None, so no other action
\* sees them partly cleared.
C11_ClearAllTogether ==
    [][(last'.op = "ClearAll" \/ Emptied) => AllEmpty']_vars

\* Clear All has just run in a session that had fetched a repository,
\* analysed it and generated a README from it
C11_Witness ==
    /\ last.op = "ClearAll"
    /\ AllEmpty
    /\ fetched # None
    /\ fetched.analysis # None
    /\ manual_input # None

\* a step of the named handler in which the completion endpoint raised
FailedCall(op) == last'.op = op /\ last'.reply = Raised

\* C12: a failed LLM call is stored like a completion: when the endpoint
\* raises, Analyze stores the text 'Error calling Groq API: ...' in
\* analysis_result and Generate README stores it in readme_content, nothing
\* else in the session records the failure, and after a failed Analyze the
\* session shows 'Analysis complete!' and offers README generation.
C12_ErrorAsCompletion ==
    [][ /\ FailedCall("AnalyzeWithAI") =>
            /\ analysis_result' = GroqErrorText
            /\ AnalysisComplete'
            /\ GenerateOffered'
            /\ UNCHANGED <<project_analysis, github_analysis, readme_content,
                           manual_input, api_key, fetched>>
        /\ FailedCall("GenerateReadme") =>
            /\ readme_content' = GroqErrorText
            /\ Truthy(readme_content')
            /\ UNCHANGED <<project_analysis, github_analysis, analysis_result,
                           manual_input, api_key, fetched>>
      ]_vars

\* the analysis failed, README generation was offered all the same, and its
\* call failed too: both fields hold the error text
C12_Witness ==
    /\ last.op = "GenerateReadme"
    /\ last.reply = Raised
    /\ analysis_result = GroqErrorText
    /\ readme_content = GroqErrorText

\* a step of the named handler
StepOf(op) == last'.op = op

\* C13: Generate README runs only with an API key and a non-empty
\* analysis_result; analysis_result is written only by Analyze, which runs
\* only with a key and a project summary or manual input; so readme_content
\* is written only by a Generate step that follows an Analyze step made
\* since the session start or the last Clear All, and the preview is shown
\* only after such a Generate step.
C13_WorkflowOrder ==
    [][ /\ StepOf("GenerateReadme") =>
            /\ Truthy(api_key)
            /\ Truthy(analysis_result)
            /\ "AnalyzeWithAI" \in done
        /\ (analysis_result' # analysis_result /\ analysis_result' # None) =>
            StepOf("AnalyzeWithAI")
        /\ StepOf("AnalyzeWithAI") =>
            /\ Truthy(api_key)
            /\ project_analysis # None \/ manual_input # None
        /\ (readme_content' # readme_content /\ readme_content' # None) =>
            StepOf("GenerateReadme")
        /\ PreviewOffered' =>
            {"AnalyzeWithAI", "GenerateReadme"} \subseteq done'
      ]_vars

\* a README generated from an analysis of manual input alone, made after a
\* repository had been fetched and the session cleared
C13_Witness ==
    /\ last.op = "GenerateReadme"
    /\ PreviewOffered
    /\ done = {"AnalyzeWithAI", "GenerateReadme"}
    /\ project_analysis = None
    /\ manual_input # None
    /\ fetched # None
    /\ fetched.analysis # None

====
